---- MODULE Spec2Model ----
(***************************************************************************)
(* LinkedIn posts dashboard (src/pages/index.jsx): the date normalizer     *)
(* (parseDateSafe, parseRelativeLinkedInDate, parseAnyDate), the row       *)
(* normalizer (normalizeRow, truthyInclude), the load of the posts CSV and *)
(* the filter / sort / limit pipeline (filtered, limited).                 *)
(*                                                                         *)
(* Strings are sequences of one-character strings, so that trimming,       *)
(* lower-casing, splitting and integer parsing are computed, not assumed.  *)
(* The four non-ASCII junk characters of parseRelativeLinkedInDate are the *)
(* atoms "MIDDOT", "BULLET", "ENDASH", "EMDASH".                           *)
(*                                                                         *)
(* A Date is [kind, day, ms]: kind "date" with the day number since the    *)
(* epoch and the millisecond within that day (time value = day * 86400000  *)
(* + ms), kind "invalid" for a Date whose time value is NaN, and kind      *)
(* "null" for the JavaScript null the parsers return.                      *)
(*                                                                         *)
(* Five specifications: Spec is the dashboard (load, curated lists, the     *)
(* two MultiSelect dropdowns and the other controls, with filtered         *)
(* recomputed by every handler that changes what it depends on); SpecDate  *)
(* is one call of a date parser on one text; SpecRel is one call of both   *)
(* relative parsers (parseRelativeLinkedInDate and parseLinkedInRelative   *)
(* of src/unnamed/part_000) on one text; SpecLimit is the limit step on a  *)
(* list and a maximum of any value; SpecRow is normalizeRow on one row.    *)
(* The clock is read once per session: now does not advance between the    *)
(* load and the renders.                                                   *)
(***************************************************************************)
EXTENDS Integers, Sequences, FiniteSets, Bags, TLC

\* ------------------------------------------------------------------------
\* Characters and strings
\* ------------------------------------------------------------------------

Digits == <<"0", "1", "2", "3", "4", "5", "6", "7", "8", "9">>

UpperLetters ==
    <<"A", "B", "C", "D", "E", "F", "G", "H", "I", "J", "K", "L", "M",
      "N", "O", "P", "Q", "R", "S", "T", "U", "V", "W", "X", "Y", "Z">>

LowerLetterSeq ==
    <<"a", "b", "c", "d", "e", "f", "g", "h", "i", "j", "k", "l", "m",
      "n", "o", "p", "q", "r", "s", "t", "u", "v", "w", "x", "y", "z">>

isDigit(c) == \E i \in 1..10 : Digits[i] = c

isLetter(c) == \E i \in 1..26 : LowerLetterSeq[i] = c

DigitValue(c) == (CHOOSE i \in 1..10 : Digits[i] = c) - 1

IsWhiteSpace(c) == c \in {" ", "\t"}

toLowerCaseChar(c) ==
    IF \E i \in 1..26 : UpperLetters[i] = c
    THEN LowerLetterSeq[CHOOSE i \in 1..26 : UpperLetters[i] = c]
    ELSE c

toLowerCase(s) == [i \in 1..Len(s) |-> toLowerCaseChar(s[i])]

RECURSIVE trimStart(_)
trimStart(s) ==
    IF s # <<>> /\ IsWhiteSpace(Head(s)) THEN trimStart(Tail(s)) ELSE s

RECURSIVE trimEnd(_)
trimEnd(s) ==
    IF s # <<>> /\ IsWhiteSpace(s[Len(s)]) THEN trimEnd(SubSeq(s, 1, Len(s) - 1)) ELSE s

trim(s) == trimEnd(trimStart(s))

\* s.split(ch).join(' '): every occurrence of the character becomes a space.
replaceChar(s, ch) == [i \in 1..Len(s) |-> IF s[i] = ch THEN " " ELSE s[i]]

\* s.indexOf('  '): the first position of two adjacent spaces, 0 when none.
indexOfDoubleSpace(s) ==
    IF \E i \in 1..(Len(s) - 1) : s[i] = " " /\ s[i + 1] = " "
    THEN CHOOSE i \in 1..(Len(s) - 1) :
            /\ s[i] = " " /\ s[i + 1] = " "
            /\ \A j \in 1..(i - 1) : ~(s[j] = " " /\ s[j + 1] = " ")
    ELSE 0

\* while (s.indexOf('  ') !== -1) s = s.replace('  ', ' ')
RECURSIVE collapseSpaces(_)
collapseSpaces(s) ==
    LET i == indexOfDoubleSpace(s)
    IN IF i = 0 THEN s
       ELSE collapseSpaces(SubSeq(s, 1, i) \o SubSeq(s, i + 2, Len(s)))

\* s.split(' '): the pieces between single spaces, empty pieces kept.
RECURSIVE split(_)
split(s) ==
    IF \E i \in 1..Len(s) : s[i] = " "
    THEN LET i == CHOOSE k \in 1..Len(s) : s[k] = " " /\ \A j \in 1..(k - 1) : s[j] # " "
         IN <<SubSeq(s, 1, i - 1)>> \o split(SubSeq(s, i + 1, Len(s)))
    ELSE <<s>>

\* ------------------------------------------------------------------------
\* Numbers: parseInt(str, 10) and Number(str) on digit strings
\* ------------------------------------------------------------------------

NaN == [nan |-> TRUE, val |-> 0]

Num(n) == [nan |-> FALSE, val |-> n]

RECURSIVE digitPrefixValue(_, _)
digitPrefixValue(s, acc) ==
    IF s # <<>> /\ isDigit(Head(s))
    THEN digitPrefixValue(Tail(s), 10 * acc + DigitValue(Head(s)))
    ELSE acc

\* parseInt(str, 10): leading white space skipped, an optional sign, then the
\* longest prefix of decimal digits; NaN when that prefix is empty.
parseInt(str) ==
    LET t == trimStart(str)
        neg == t # <<>> /\ Head(t) = "-"
        u == IF t # <<>> /\ Head(t) \in {"-", "+"} THEN Tail(t) ELSE t
    IN IF u = <<>> \/ ~isDigit(Head(u)) THEN NaN
       ELSE Num((IF neg THEN -1 ELSE 1) * digitPrefixValue(u, 0))

\* Number(str) on a string of decimal digits only (the pieces of a string the
\* regular expression of parseDateSafe has matched).
Number(str) == digitPrefixValue(str, 0)

\* ------------------------------------------------------------------------
\* Dates (ECMAScript time values, day number and millisecond within the day)
\* ------------------------------------------------------------------------

msPerMinute == 60000

MinutesPerDay == 1440

\* Time values beyond +-8.64e15 ms (1e8 days from the epoch) are NaN (TimeClip).
MaxDayNumber == 100000000

\* Every year beyond this has a day number that TimeClip rejects.
YearLimit == 300000

Null == [kind |-> "null", day |-> 0, ms |-> 0]

InvalidDate == [kind |-> "invalid", day |-> 0, ms |-> 0]

DateOf(day, ms) == [kind |-> "date", day |-> day, ms |-> ms]

TimeClip(day, ms) ==
    IF day < -MaxDayNumber \/ day > MaxDayNumber \/ (day = MaxDayNumber /\ ms > 0)
    THEN InvalidDate
    ELSE DateOf(day, ms)

DaysInYear(y) ==
    IF y % 4 # 0 THEN 365 ELSE IF y % 100 # 0 THEN 366 ELSE IF y % 400 # 0 THEN 365 ELSE 366

DayFromYear(y) ==
    365 * (y - 1970) + ((y - 1969) \div 4) - ((y - 1901) \div 100) + ((y - 1601) \div 400)

\* Day within the year on which month mn (0-based) starts.
MonthStart(mn, leap) ==
    LET t == <<0, 31, 59, 90, 120, 151, 181, 212, 243, 273, 304, 334>>
    IN t[mn + 1] + (IF leap /\ mn >= 2 THEN 1 ELSE 0)

YearFromDay(day) ==
    LET a == 1970 + (day \div 365)
        b == 1970 + (day \div 366)
        lo == (IF a < b THEN a ELSE b) - 1
        hi == (IF a < b THEN b ELSE a) + 1
    IN CHOOSE y \in lo..hi : DayFromYear(y) <= day /\ day < DayFromYear(y + 1)

getUTCFullYear(d) == YearFromDay(d.day)

getUTCMonth(d) ==
    LET y == YearFromDay(d.day)
        leap == DaysInYear(y) = 366
        doy == d.day - DayFromYear(y)
    IN CHOOSE mn \in 0..11 :
          /\ MonthStart(mn, leap) <= doy
          /\ (mn = 11 \/ doy < MonthStart(mn + 1, leap))

getUTCDate(d) ==
    LET y == YearFromDay(d.day)
        leap == DaysInYear(y) = 366
    IN d.day - DayFromYear(y) - MonthStart(getUTCMonth(d), leap) + 1

getUTCHours(d) == d.ms \div 3600000

getUTCMinutes(d) == (d.ms \div msPerMinute) % 60

\* MakeDay(year, month, date): the day number of the given calendar fields,
\* month and date free to lie outside their ranges; NaN (here the record
\* NaN) when the year is out of the range of time values.
MakeDay(year, month, date) ==
    LET ym == year + (month \div 12)
        mn == month % 12
    IN IF ym < -YearLimit \/ ym > YearLimit THEN NaN
       ELSE Num(DayFromYear(ym) + MonthStart(mn, DaysInYear(ym) = 366) + date - 1)

MakeDateFromDay(dayNum, ms) ==
    IF dayNum.nan THEN InvalidDate ELSE TimeClip(dayNum.val, ms)

\* Date.UTC(y, m, d): a year 0..99 means 1900 + year.
DateUTC(y, m, d) ==
    LET yr == IF 0 <= y /\ y <= 99 THEN 1900 + y ELSE y
    IN MakeDateFromDay(MakeDay(yr, m, d), 0)

\* d.setUTCDate(date)
setUTCDate(d, date) ==
    MakeDateFromDay(MakeDay(getUTCFullYear(d), getUTCMonth(d), date), d.ms)

\* d.setUTCMonth(month)
setUTCMonth(d, month) ==
    MakeDateFromDay(MakeDay(getUTCFullYear(d), month, getUTCDate(d)), d.ms)

\* d.setUTCFullYear(year)
setUTCFullYear(d, year) ==
    MakeDateFromDay(MakeDay(year, getUTCMonth(d), getUTCDate(d)), d.ms)

\* d.setUTCMinutes(min): MakeTime(hour, min, sec, ms) carried into the day.
setUTCMinutes(d, min) ==
    LET total == getUTCHours(d) * 60 + min
    IN TimeClip(d.day + (total \div MinutesPerDay),
                (total % MinutesPerDay) * msPerMinute + (d.ms % msPerMinute))

\* d.setUTCHours(hour)
setUTCHours(d, hour) ==
    TimeClip(d.day + (hour \div 24), (hour % 24) * 3600000 + (d.ms % 3600000))

\* ------------------------------------------------------------------------
\* parseDateSafe (the absolute strategies)
\* ------------------------------------------------------------------------

\* /^\d{4}-\d{2}-\d{2}$/.test(v)
matchesIsoDate(v) ==
    /\ Len(v) = 10
    /\ \A i \in {1, 2, 3, 4, 6, 7, 9, 10} : isDigit(v[i])
    /\ v[5] = "-" /\ v[8] = "-"

\* new Date(v) for a string that is not YYYY-MM-DD. What the host's date
\* parser makes of a string outside the ECMAScript date-time format is
\* implementation-defined: host is the outcome on this host (InvalidDate or
\* some date). No host reads a date out of a string without any digit.
newDateFromString(v, host) ==
    IF \E i \in 1..Len(v) : isDigit(v[i]) THEN host ELSE InvalidDate

parseDateSafe(v, host) ==
    IF v = <<>> THEN Null
    ELSE IF matchesIsoDate(v)
    THEN LET y == Number(SubSeq(v, 1, 4))
             m == Number(SubSeq(v, 6, 7))
             d == Number(SubSeq(v, 9, 10))
             dt == DateUTC(y, m - 1, d)
         IN IF dt.kind = "invalid" THEN Null ELSE dt
    ELSE LET d == newDateFromString(v, host)
         IN IF d.kind = "invalid" THEN Null ELSE d

\* ------------------------------------------------------------------------
\* parseRelativeLinkedInDate (the relative strategy)
\* ------------------------------------------------------------------------

junk == <<"MIDDOT", "BULLET", "ENDASH", "EMDASH", ".">>

RECURSIVE replaceJunk(_, _)
replaceJunk(s, k) ==
    IF k > Len(junk) THEN s ELSE replaceJunk(replaceChar(s, junk[k]), k + 1)

\* insert a space between a digit and a letter that follows it: "2h" -> "2 h"
RECURSIVE numUnitSpacingFrom(_, _)
numUnitSpacingFrom(str, i) ==
    IF i > Len(str) THEN <<>>
    ELSE (IF i > 1 /\ isDigit(str[i - 1]) /\ isLetter(str[i]) /\ str[i - 1] # " "
          THEN <<" ", str[i]>> ELSE <<str[i]>>)
         \o numUnitSpacingFrom(str, i + 1)

numUnitSpacing(str) == numUnitSpacingFrom(str, 1)

prefixes == {<<"a", "b", "o", "u", "t">>, <<"a", "p", "p", "r", "o", "x">>, <<"a", "p", "p", "r", "o", "x", "i", "m", "a", "t", "e", "l", "y">>}

justNow == <<"j", "u", "s", "t", " ", "n", "o", "w">>

yesterday == <<"y", "e", "s", "t", "e", "r", "d", "a", "y">>

ago == <<"a", "g", "o">>

\* const map = { min: [...], hr: [...], ... }, in the order of its keys
unitMap ==
    <<[kind |-> "min", forms |-> {<<"m", "i", "n">>, <<"m", "i", "n", "s">>, <<"m", "i", "n", "u", "t", "e">>, <<"m", "i", "n", "u", "t", "e", "s">>, <<"m">>}],
      [kind |-> "hr", forms |-> {<<"h", "r">>, <<"h", "r", "s">>, <<"h", "o", "u", "r">>, <<"h", "o", "u", "r", "s">>, <<"h">>}],
      [kind |-> "day", forms |-> {<<"d", "a", "y">>, <<"d", "a", "y", "s">>, <<"d">>}],
      [kind |-> "week", forms |-> {<<"w", "e", "e", "k">>, <<"w", "e", "e", "k", "s">>, <<"w", "k">>, <<"w", "k", "s">>, <<"w">>}],
      [kind |-> "month", forms |-> {<<"m", "o", "n", "t", "h">>, <<"m", "o", "n", "t", "h", "s">>, <<"m", "o">>, <<"m", "o", "s">>}],
      [kind |-> "year", forms |-> {<<"y", "r">>, <<"y", "r", "s">>, <<"y", "e", "a", "r">>, <<"y", "e", "a", "r", "s">>, <<"y">>}]>>

\* a unit matcher that accepts any token one of the table's forms starts
\* (startsWith where the code has includes)
kindOfUnitByPrefix(unit) ==
    LET starts(f) == Len(f) <= Len(unit) /\ SubSeq(unit, 1, Len(f)) = f
        hit(k) == \E f \in unitMap[k].forms : starts(f)
    IN IF \E k \in 1..Len(unitMap) : hit(k)
       THEN unitMap[CHOOSE k \in 1..Len(unitMap) :
                       hit(k) /\ \A j \in 1..(k - 1) : ~hit(j)].kind
       ELSE "none"

\* for (const k in map) { if (map[k].includes(unit)) { kind = k; break; } }
kindOfUnit(unit) ==
    IF \E k \in 1..Len(unitMap) : unit \in unitMap[k].forms
    THEN unitMap[CHOOSE k \in 1..Len(unitMap) :
                    /\ unit \in unitMap[k].forms
                    /\ \A j \in 1..(k - 1) : unit \notin unitMap[j].forms].kind
    ELSE "none"

\* the switch over kind, on d = new Date(now)
subtractUnits(d, kind, n) ==
    CASE kind = "min" -> setUTCMinutes(d, getUTCMinutes(d) - n)
      [] kind = "hr" -> setUTCHours(d, getUTCHours(d) - n)
      [] kind = "day" -> setUTCDate(d, getUTCDate(d) - n)
      [] kind = "week" -> setUTCDate(d, getUTCDate(d) - n * 7)
      [] kind = "month" -> setUTCMonth(d, getUTCMonth(d) - n)
      [] kind = "year" -> setUTCFullYear(d, getUTCFullYear(d) - n)

\* the normalisation of the input before it is matched and tokenized
normalizeRelative(v) ==
    numUnitSpacing(collapseSpaces(replaceJunk(trim(toLowerCase(v)), 1)))

\* the tokenizer: [prefix] <integer> <unit> [ago]
parseTokens(s, nowDate) ==
    LET parts == split(s)
        idx0 == IF parts[1] \in prefixes THEN 2 ELSE 1
    IN \* a trailing 'ago' is stepped over after the unit; nothing reads idx later
       IF idx0 > Len(parts) THEN Null
       ELSE LET n == parseInt(parts[idx0])
            IN IF n.nan THEN Null
               ELSE IF idx0 + 1 > Len(parts) THEN Null
               ELSE LET kind == kindOfUnit(parts[idx0 + 1])
                    IN IF kind = "none" THEN Null
                       ELSE subtractUnits(nowDate, kind, n.val)

parseRelativeLinkedInDate(v, nowDate) ==
    IF v = <<>> THEN Null
    ELSE LET s == normalizeRelative(v)
         IN IF s = justNow THEN nowDate
            ELSE IF s = yesterday THEN setUTCDate(nowDate, getUTCDate(nowDate) - 1)
            ELSE parseTokens(s, nowDate)

parseAnyDate(v, host, nowDate) ==
    LET abs == parseDateSafe(v, host)
    IN IF abs.kind # "null" THEN abs ELSE parseRelativeLinkedInDate(v, nowDate)


\* ------------------------------------------------------------------------
\* String comparison and search
\* ------------------------------------------------------------------------

\* The collation of localeCompare on the characters that occur: punctuation,
\* then digits, then letters; letters of either case share a rank and, on an
\* otherwise equal string, the lower-case letter comes first.
CollationSeq ==
    <<" ", ",", ";", "-", ".">> \o Digits \o LowerLetterSeq

collationRank(c) ==
    LET l == toLowerCaseChar(c)
    IN IF \E i \in 1..Len(CollationSeq) : CollationSeq[i] = l
       THEN CHOOSE i \in 1..Len(CollationSeq) : CollationSeq[i] = l
       ELSE 0

isUpper(c) == \E i \in 1..26 : UpperLetters[i] = c

RECURSIVE comparePrimary(_, _)
comparePrimary(a, b) ==
    IF a = <<>> THEN (IF b = <<>> THEN 0 ELSE -1)
    ELSE IF b = <<>> THEN 1
    ELSE IF collationRank(Head(a)) < collationRank(Head(b)) THEN -1
    ELSE IF collationRank(Head(a)) > collationRank(Head(b)) THEN 1
    ELSE comparePrimary(Tail(a), Tail(b))

RECURSIVE compareCase(_, _)
compareCase(a, b) ==
    IF a = <<>> \/ b = <<>> THEN 0
    ELSE IF isUpper(Head(a)) = isUpper(Head(b)) THEN compareCase(Tail(a), Tail(b))
    ELSE IF isUpper(Head(b)) THEN -1 ELSE 1

\* a.localeCompare(b): negative, zero or positive
localeCompare(a, b) ==
    LET p == comparePrimary(a, b) IN IF p # 0 THEN p ELSE compareCase(a, b)

\* hay.includes(needle)
includes(hay, needle) ==
    \E i \in 1..(Len(hay) - Len(needle) + 1) : SubSeq(hay, i, i + Len(needle) - 1) = needle

\* parts.join(",")
RECURSIVE join(_)
join(parts) ==
    IF parts = <<>> THEN <<>>
    ELSE IF Len(parts) = 1 THEN parts[1]
    ELSE parts[1] \o <<",">> \o join(Tail(parts))

\* the elements of a sequence
Range(s) == {s[i] : i \in 1..Len(s)}

\* arr.filter(keep) for a set of kept values
RECURSIVE filterSeq(_, _)
filterSeq(s, keep) ==
    IF s = <<>> THEN <<>>
    ELSE (IF Head(s) \in keep THEN <<Head(s)>> ELSE <<>>) \o filterSeq(Tail(s), keep)

\* ------------------------------------------------------------------------
\* Row normalization
\* ------------------------------------------------------------------------

\* the value of a property the row object does not have
Undefined == <<"undefined">>

Get(r, key) == IF key \in DOMAIN r THEN r[key] ELSE Undefined

\* a ?? b ?? ... : the first value that is not undefined
RECURSIVE firstDefined(_, _, _)
firstDefined(r, keys, default) ==
    IF keys = <<>> THEN default
    ELSE IF Get(r, Head(keys)) # Undefined THEN Get(r, Head(keys))
    ELSE firstDefined(r, Tail(keys), default)

\* a || b || ... read from the last alias back
lastTruthy(r, keys, default) ==
    LET found == {i \in 1..Len(keys) : Get(r, keys[i]) \notin {Undefined, <<>>}}
    IN IF found = {} THEN default
       ELSE Get(r, keys[CHOOSE i \in found : \A j \in found : j <= i])

\* a || b || ... : the first value that is neither undefined nor empty
RECURSIVE firstTruthy(_, _, _)
firstTruthy(r, keys, default) ==
    IF keys = <<>> THEN default
    ELSE IF Get(r, Head(keys)) \notin {Undefined, <<>>} THEN Get(r, Head(keys))
    ELSE firstTruthy(r, Tail(keys), default)

\* Treat blank as include=true; only explicit no values exclude
\* truthyInclude excluding only the explicit "no" values its comment speaks of
truthyIncludeUnlessNo(v) ==
    LET s == toLowerCase(trim(v))
    IN s \notin {<<"n">>, <<"n", "o">>, <<"f", "a", "l", "s", "e">>}

truthyInclude(v) ==
    LET s == toLowerCase(trim(v))
    IN IF s = <<>> THEN TRUE
       ELSE s \in {<<"y">>, <<"y", "e", "s">>, <<"1">>, <<"t", "r", "u", "e">>}

isTagSeparator(c) == c \in {",", ";"}

\* tagsStr.split(/[,;]+/): the pieces between runs of separators
RECURSIVE splitTags(_)
splitTags(s) ==
    IF \E i \in 1..Len(s) : isTagSeparator(s[i])
    THEN LET i == CHOOSE k \in 1..Len(s) :
                    isTagSeparator(s[k]) /\ \A j \in 1..(k - 1) : ~isTagSeparator(s[j])
             e == CHOOSE k \in i..Len(s) :
                    /\ \A j \in i..k : isTagSeparator(s[j])
                    /\ (k = Len(s) \/ ~isTagSeparator(s[k + 1]))
         IN <<SubSeq(s, 1, i - 1)>> \o splitTags(SubSeq(s, e + 1, Len(s)))
    ELSE <<s>>

\* .map((t) => t.trim()).filter(Boolean)
RECURSIVE trimmedNonEmpty(_)
trimmedNonEmpty(parts) ==
    IF parts = <<>> THEN <<>>
    ELSE (IF trim(Head(parts)) = <<>> THEN <<>> ELSE <<trim(Head(parts))>>)
         \o trimmedNonEmpty(Tail(parts))

normalizeRow(r, hostDate, nowDate) ==
    LET dateRaw == trim(firstTruthy(r, <<"posted_iso", "post_date_iso", "date", "posted">>, <<>>))
    IN [include |-> firstDefined(r, <<"Include", "include", "INCLUDE">>, <<>>),
        dateRaw |-> dateRaw,
        dateObj |-> parseAnyDate(dateRaw, hostDate, nowDate),
        author  |-> trim(firstTruthy(r, <<"author", "author_name", "Author">>, <<>>)),
        title   |-> trim(firstTruthy(r, <<"headline", "title">>, <<>>)),
        summary |-> trim(firstTruthy(r, <<"summary", "Summary">>, <<>>)),
        tags    |-> trimmedNonEmpty(splitTags(firstTruthy(r, <<"tags", "Tags">>, <<>>))),
        url     |-> trim(firstTruthy(r, <<"post_url", "url", "href">>, <<>>))]

\* .filter((r) => truthyInclude(r.include) && r.title && r.url)
RECURSIVE keepIncluded(_)
keepIncluded(posts) ==
    IF posts = <<>> THEN <<>>
    ELSE (IF truthyInclude(Head(posts).include) /\ Head(posts).title # <<>>
             /\ Head(posts).url # <<>>
          THEN <<Head(posts)>> ELSE <<>>)
         \o keepIncluded(Tail(posts))

\* (parsed.data || []).map(normalizeRow).filter(...)
normalizeAll(data, hostDate, nowDate) ==
    keepIncluded([i \in 1..Len(data) |-> normalizeRow(data[i], hostDate, nowDate)])

\* ------------------------------------------------------------------------
\* Filter, sort, limit
\* ------------------------------------------------------------------------

\* (authors.length ? keep members : keep all), and likewise for each stage
authorStage(r, authorSel) == authorSel = {} \/ r.author \in authorSel

tagStage(r, tagSel) == tagSel = {} \/ \E i \in 1..Len(r.tags) : r.tags[i] \in tagSel

\* r.dateObj && r.dateObj >= cutoff, the cutoff period days before nowDate
cutoffOf(periodDays, nowDate) == setUTCDate(nowDate, getUTCDate(nowDate) - periodDays)

\* the period stage letting a post without a date through
periodStageLenient(r, periodDays, cutoff) ==
    (periodDays > 0 /\ r.dateObj.kind # "null") =>
        /\ r.dateObj.kind = "date"
        /\ cutoff.kind = "date"
        /\ \/ r.dateObj.day > cutoff.day
           \/ (r.dateObj.day = cutoff.day /\ r.dateObj.ms >= cutoff.ms)

periodStage(r, periodDays, cutoff) ==
    periodDays > 0 =>
        /\ r.dateObj.kind = "date"
        /\ cutoff.kind = "date"
        /\ \/ r.dateObj.day > cutoff.day
           \/ (r.dateObj.day = cutoff.day /\ r.dateObj.ms >= cutoff.ms)

\* the search stage without search.trim()
searchStageUntrimmed(r, searchText) ==
    searchText # <<>> =>
        LET q == toLowerCase(searchText)
        IN \/ includes(toLowerCase(r.title), q)
           \/ includes(toLowerCase(r.author), q)
           \/ includes(toLowerCase(r.summary), q)
           \/ includes(toLowerCase(join(r.tags)), q)

searchStage(r, searchText) ==
    trim(searchText) # <<>> =>
        LET q == toLowerCase(trim(searchText))
        IN \/ includes(toLowerCase(r.title), q)
           \/ includes(toLowerCase(r.author), q)
           \/ includes(toLowerCase(r.summary), q)
           \/ includes(toLowerCase(join(r.tags)), q)

passes(r, authorSel, tagSel, periodDays, searchText, cutoff) ==
    /\ authorStage(r, authorSel)
    /\ tagStage(r, tagSel)
    /\ periodStage(r, periodDays, cutoff)
    /\ searchStage(r, searchText)

RECURSIVE filterFrom(_, _, _, _, _, _)
filterFrom(posts, authorSel, tagSel, periodDays, searchText, cutoff) ==
    IF posts = <<>> THEN <<>>
    ELSE (IF passes(Head(posts), authorSel, tagSel, periodDays, searchText, cutoff)
          THEN <<Head(posts)>> ELSE <<>>)
         \o filterFrom(Tail(posts), authorSel, tagSel, periodDays, searchText, cutoff)

\* the four stages in turn; the cutoff is computed once, from new Date()
filterPosts(posts, authorSel, tagSel, periodDays, searchText, nowDate) ==
    LET cutoff == IF periodDays > 0 THEN cutoffOf(periodDays, nowDate) ELSE nowDate
    IN filterFrom(posts, authorSel, tagSel, periodDays, searchText, cutoff)

\* a.dateObj ? a.dateObj.getTime() : 0, as [nan, day, ms]
timeOf(r) ==
    IF r.dateObj.kind = "null" THEN [nan |-> FALSE, day |-> 0, ms |-> 0]
    ELSE IF r.dateObj.kind = "invalid" THEN [nan |-> TRUE, day |-> 0, ms |-> 0]
    ELSE [nan |-> FALSE, day |-> r.dateObj.day, ms |-> r.dateObj.ms]

\* the comparator of the sort: a negative, zero or positive number; a NaN
\* result (from a NaN time) is read as zero by the sort
compare(a, b) ==
    LET at == timeOf(a)
        bt == timeOf(b)
    IN IF at.nan \/ bt.nan THEN 0
       ELSE IF bt.day # at.day THEN (IF bt.day < at.day THEN -1 ELSE 1)
       ELSE IF bt.ms # at.ms THEN (IF bt.ms < at.ms THEN -1 ELSE 1)
       ELSE LET s == localeCompare(a.author, b.author)
            IN IF s # 0 THEN s ELSE localeCompare(a.title, b.title)

\* whether the comparator orders these posts consistently (its zero relation
\* and its order are transitive); otherwise the order sort leaves is
\* implementation-defined. Without a NaN time the comparator is a
\* lexicographic order on (time, author, title), which is consistent.
consistentOn(posts) ==
    \/ \A i \in 1..Len(posts) : ~timeOf(posts[i]).nan
    \/ \A a, b, c \in Range(posts) :
          /\ (compare(a, b) = 0 /\ compare(b, c) = 0) => compare(a, c) = 0
          /\ (compare(a, b) < 0 /\ compare(b, c) < 0) => compare(a, c) < 0
          /\ (compare(a, b) > 0 /\ compare(b, c) > 0) => compare(a, c) > 0

\* x placed after the last element it does not sort before
RECURSIVE insertSorted(_, _)
insertSorted(sorted, x) ==
    IF sorted = <<>> THEN <<x>>
    ELSE IF compare(sorted[Len(sorted)], x) <= 0 THEN Append(sorted, x)
    ELSE Append(insertSorted(SubSeq(sorted, 1, Len(sorted) - 1), x), sorted[Len(sorted)])

RECURSIVE stableSort(_)
stableSort(posts) ==
    IF posts = <<>> THEN <<>>
    ELSE insertSorted(stableSort(SubSeq(posts, 1, Len(posts) - 1)), posts[Len(posts)])

permutationsOf(posts) ==
    {[i \in 1..Len(posts) |-> posts[p[i]]] :
        p \in {q \in [1..Len(posts) -> 1..Len(posts)] :
                  \A i, j \in 1..Len(posts) : i # j => q[i] # q[j]}}

\* [...out].sort(comparator): the stable sort when the comparator is
\* consistent, any order otherwise
sortOutcomes(posts) ==
    IF consistentOn(posts) THEN {stableSort(posts)} ELSE permutationsOf(posts)

\* the values filtered may take
filteredOutcomes(posts, authorSel, tagSel, periodDays, searchText, nowDate) ==
    sortOutcomes(filterPosts(posts, authorSel, tagSel, periodDays, searchText, nowDate))

\* filtered.slice(0, maxResults)
slice0(list, n) ==
    IF n >= 0 THEN SubSeq(list, 1, IF n < Len(list) THEN n ELSE Len(list))
    ELSE IF Len(list) + n <= 0 THEN <<>> ELSE SubSeq(list, 1, Len(list) + n)

\* the limit without the !maxResults test
limitToSentinelOnly(list, maxR) ==
    IF maxR = -1 THEN list ELSE slice0(list, maxR)

\* !maxResults || maxResults === -1 ? filtered : filtered.slice(0, maxResults)
limitTo(list, maxR) ==
    IF maxR = 0 \/ maxR = -1 THEN list ELSE slice0(list, maxR)

\* uniqueSorted(arr): the distinct non-empty values in localeCompare order
RECURSIVE sortedSeq(_)
sortedSeq(vs) ==
    IF vs = {} THEN <<>>
    ELSE LET least == CHOOSE v \in vs : \A w \in vs : localeCompare(v, w) <= 0
         IN <<least>> \o sortedSeq(vs \ {least})

uniqueSorted(values) == sortedSeq(values \ {<<>>})

\* ------------------------------------------------------------------------
\* The date normalizer as a machine: a request is drawn, one of the three
\* entry points is applied to its text, and the result is kept.
\* ------------------------------------------------------------------------

VARIABLES
    req,      \* the request: what the input text was built from
    host,     \* what the host's date parser makes of a non-ISO string with digits
    now,      \* the reference instant (new Date())
    out,      \* the value returned
    called    \* "none", or the entry point that returned out

dateVars == <<req, host, now, out, called>>

TableUnits ==
    {[tok |-> f, bucket |-> "minute"] : f \in {<<"m", "i", "n">>, <<"m", "i", "n", "s">>, <<"m", "i", "n", "u", "t", "e">>, <<"m", "i", "n", "u", "t", "e", "s">>, <<"m">>}}
    \cup
    {[tok |-> f, bucket |-> "hour"] : f \in {<<"h", "r">>, <<"h", "r", "s">>, <<"h", "o", "u", "r">>, <<"h", "o", "u", "r", "s">>, <<"h">>}}
    \cup
    {[tok |-> f, bucket |-> "day"] : f \in {<<"d", "a", "y">>, <<"d", "a", "y", "s">>, <<"d">>}}
    \cup
    {[tok |-> f, bucket |-> "week"] : f \in {<<"w", "e", "e", "k">>, <<"w", "e", "e", "k", "s">>, <<"w", "k">>, <<"w", "k", "s">>, <<"w">>}}
    \cup
    {[tok |-> f, bucket |-> "month"] : f \in {<<"m", "o", "n", "t", "h">>, <<"m", "o", "n", "t", "h", "s">>, <<"m", "o">>, <<"m", "o", "s">>}}
    \cup
    {[tok |-> f, bucket |-> "year"] : f \in {<<"y", "r">>, <<"y", "r", "s">>, <<"y", "e", "a", "r">>, <<"y", "e", "a", "r", "s">>, <<"y">>}}

UnknownUnits ==
    {[tok |-> f, bucket |-> "none"] : f \in {<<"x">>, <<"b", "a", "n", "a", "n", "a", "s">>, <<"m", "o", "n">>, <<"s", "e", "c">>}}

QuantityTokens ==
    {[tok |-> <<"0">>, val |-> 0, class |-> "numeral"],
     [tok |-> <<"1">>, val |-> 1, class |-> "numeral"],
     [tok |-> <<"2">>, val |-> 2, class |-> "numeral"],
     [tok |-> <<"1", "2">>, val |-> 12, class |-> "numeral"],
     [tok |-> <<"4", "5">>, val |-> 45, class |-> "numeral"],
     [tok |-> <<"4", "0", "0">>, val |-> 400, class |-> "numeral"],
     [tok |-> <<"0", "0", "7">>, val |-> 7, class |-> "numeral"],
     [tok |-> <<"2", "0", "0", "0", "0", "0", "0", "0", "0">>, val |-> 200000000, class |-> "numeral"],
     [tok |-> <<"-", "3">>, val |-> -3, class |-> "signed"],
     [tok |-> <<"+", "3">>, val |-> 3, class |-> "signed"],
     [tok |-> <<"3", ",">>, val |-> 3, class |-> "trailing"],
     [tok |-> <<"b", "a", "n", "a", "n", "a">>, val |-> 0, class |-> "nonnumeric"],
     [tok |-> <<"x", "2">>, val |-> 0, class |-> "nonnumeric"]}

LiteralInputs ==
    {<<>>,
     <<" ", " ", " ">>,
     <<"j", "u", "s", "t", " ", "n", "o", "w">>,
     <<"n", "o", "w">>,
     <<"y", "e", "s", "t", "e", "r", "d", "a", "y">>,
     <<"J", "u", "s", "t", " ", "N", "o", "w">>,
     <<" ", "Y", "e", "s", "t", "e", "r", "d", "a", "y", " ">>,
     <<"N", "O", "W">>,
     <<"y", "e", "s", "t", "e", "r", "d", "a", "y", ".">>,
     <<"b", "a", "n", "a", "n", "a">>,
     <<"2", "0", "2", "4">>}

Prefixes == {<<>>} \cup prefixes

IsoYears == {0, 1, 50, 99, 100, 1600, 1969, 1970, 2000, 2024, 9999}

IsoDays == {1, 15, 28, 29, 30, 31}

\* Gregorian month lengths, month 1..12
CalendarDaysInMonth(y, m) ==
    IF m = 2
    THEN (IF (y % 4 = 0 /\ y % 100 # 0) \/ y % 400 = 0 THEN 29 ELSE 28)
    ELSE IF m \in {4, 6, 9, 11} THEN 30 ELSE 31

\* 2024-01-15T12:34:56.789Z, 2024-03-31T00:10:00.000Z, 2024-02-29T23:59:59.999Z,
\* 1970-01-01T00:30:00.000Z
NowSamples ==
    {DateOf(19737, 45296789), DateOf(19813, 600000), DateOf(19782, 86399999),
     DateOf(0, 1800000)}

\* 2031-05-05T00:00:00.000Z, a date a lenient host parser may return
HostSamples == {InvalidDate, DateOf(22405, 0)}

EmptyReq ==
    [k |-> "lit", text |-> <<>>, y |-> 0, m |-> 0, d |-> 0, prefix |-> <<>>,
     qty |-> [tok |-> <<>>, val |-> 0, class |-> "none"],
     unit |-> [tok |-> <<>>, bucket |-> "none"], ago |-> FALSE, compact |-> FALSE]

IsoRequests ==
    {[EmptyReq EXCEPT !.k = "iso", !.y = y, !.m = m, !.d = d] :
        y \in IsoYears, m \in 1..12, d \in IsoDays}

LiteralRequests == {[EmptyReq EXCEPT !.text = t] : t \in LiteralInputs}

NoUnit == [tok |-> <<>>, bucket |-> "absent"]

PhraseRequests ==
    {[EmptyReq EXCEPT !.k = "phrase", !.prefix = p, !.qty = q, !.unit = u,
                      !.ago = a, !.compact = c] :
        p \in Prefixes, q \in QuantityTokens,
        u \in TableUnits \cup UnknownUnits \cup {NoUnit}, a \in BOOLEAN, c \in BOOLEAN}

Requests ==
    {r \in IsoRequests : r.d <= CalendarDaysInMonth(r.y, r.m)}
    \cup LiteralRequests \cup PhraseRequests

\* the decimal digits of n, zero-padded to the given width
RECURSIVE Pad(_, _)
Pad(n, width) ==
    IF width = 0 THEN <<>> ELSE Pad(n \div 10, width - 1) \o <<Digits[(n % 10) + 1]>>

\* the text of a request, as it stands in the date column
TextOf(r) ==
    CASE r.k = "iso" -> Pad(r.y, 4) \o <<"-">> \o Pad(r.m, 2) \o <<"-">> \o Pad(r.d, 2)
      [] r.k = "lit" -> r.text
      [] r.k = "phrase" ->
            (IF r.prefix = <<>> THEN <<>> ELSE r.prefix \o <<" ">>)
            \o r.qty.tok
            \o (IF r.compact \/ r.unit.tok = <<>> THEN <<>> ELSE <<" ">>)
            \o r.unit.tok
            \o (IF r.ago THEN <<" ">> \o ago ELSE <<>>)


\* ------------------------------------------------------------------------
\* The dashboard: state of LinkedInPostsDashboard
\* ------------------------------------------------------------------------

VARIABLES
    parsed,         \* parsed.data in load(): the records of the posts CSV served
    rows,           \* useState([]): the posts
    curatedCSV,     \* authorsCSV and tagsCSV in loadCuratedOptions(): what the fetches resolved to
    loading,        \* useState(true)
    error,          \* useState(""): the notice
    authors,        \* useState([]): applied author selection (read by length and includes)
    tags,           \* useState([]): applied tag selection
    period,         \* useState(30)
    maxResults,     \* useState(200)
    search,         \* useState("")
    authorOptions,  \* useState([]): curated list if provided
    tagOptions,     \* useState([])
    filtered,       \* the memoized filtered and sorted posts
    loadPc,         \* "fetching" | "done": load() of the posts CSV
    curatedPc,      \* "idle" | "fetching" | "done": loadCuratedOptions()
    mounted,        \* FALSE once the effect clean-ups have set cancelled
    events,         \* user events so far
    temp,           \* useState([]) of each MultiSelect: the selection being edited
    open            \* useState(false) of each MultiSelect: the menu is shown

appVars ==
    <<parsed, rows, curatedCSV, loading, error, authors, tags, period, maxResults, search, authorOptions,
      tagOptions, filtered, loadPc, curatedPc, mounted, events, temp, open>>

\* limited applied to a list and a maximum of any value: [list, max, out, pc]
VARIABLE lim

\* normalizeRow applied to one row: [field, key, value, extra, out, refFirst,
\* refExtra, pc]
VARIABLE nrm

vars == <<dateVars, appVars, lim, nrm>>

\* user events in one session
MaxEvents == 3

DefaultPeriod == 30

DefaultMaxResults == 200

PeriodOptions == {7, 30, 90, -1}

MaxResultsOptions == {100, 200, 500, -1}

NotFoundNotice == "linkedin_posts.csv not found."

\* records a posts CSV may hold: inclusion flag, date, author, title, summary,
\* tags, url
RecordOf(inc, date, author, title, summary, tagText, url) ==
    [inc |-> inc, date |-> date, author |-> author, title |-> title,
     summary |-> summary, tags |-> tagText, url |-> url]

p_T1 ==
    RecordOf(<<"Y">>, <<"2", "0", "2", "4", "-", "0", "1", "-", "1", "0">>, <<"A">>, <<"T", "1">>,
             <<"s">>, <<"x", ",", "y">>, <<"u", "1">>)

p_T2 ==
    RecordOf(<<>>, <<"3", " ", "d", "a", "y", "s", " ", "a", "g", "o">>, <<"B">>, <<"T", "2">>,
             <<>>, <<"y">>, <<"u", "2">>)

p_T3 ==
    RecordOf(<<"N">>, <<"2", "0", "2", "4", "-", "0", "1", "-", "1", "2">>, <<"A">>, <<"T", "3">>,
             <<>>, <<"x">>, <<"u", "3">>)

p_T4 ==
    RecordOf(<<" ", "y", "e", "s", " ">>, <<>>, <<"b">>, <<"T", "1">>,
             <<>>, <<"x", ";", " ", "y">>, <<"u", "4">>)

p_T5 ==
    RecordOf(<<"T", "R", "U", "E">>, <<"1", "9", "6", "9", "-", "1", "2", "-", "3", "1">>, <<"B">>, <<" ", "T", "5", " ">>,
             <<>>, <<>>, <<"u", "5">>)

p_T6 ==
    RecordOf(<<"1">>, <<"2", "0", "2", "3", "-", "1", "2", "-", "0", "1">>, <<"A">>, <<"T", "6">>,
             <<>>, <<"x">>, <<"u", "6">>)

p_T7 ==
    RecordOf(<<"y">>, <<"2", "0", "0", "0", "0", "0", "0", "0", "0", " ", "d">>, <<"A">>, <<"T", "7">>,
             <<>>, <<"y">>, <<"u", "7">>)

p_T8 ==
    RecordOf(<<"0">>, <<"2", "0", "2", "4", "-", "0", "1", "-", "1", "4">>, <<"B">>, <<"T", "8">>,
             <<>>, <<>>, <<"u", "8">>)

p_T9 ==
    RecordOf(<<"y", "e", "s">>, <<"2", "0", "2", "4", "-", "0", "1", "-", "1", "4">>, <<"B">>, <<" ", " ">>,
             <<>>, <<>>, <<"u", "9">>)

p_T0 ==
    RecordOf(<<"t", "r", "u", "e">>, <<"2", "0", "2", "4", "-", "0", "1", "-", "1", "3">>, <<"A">>, <<"T", "0">>,
             <<>>, <<"x">>, <<>>)

\* the header row of the posts CSV: the README's, or one of aliases without
\* an inclusion column
RawRow(v, variant) ==
    IF variant = "readme"
    THEN [k \in {"Include", "posted_iso", "author", "headline", "summary", "tags", "post_url"} |->
            CASE k = "Include" -> v.inc [] k = "posted_iso" -> v.date
              [] k = "author" -> v.author [] k = "headline" -> v.title
              [] k = "summary" -> v.summary [] k = "tags" -> v.tags
              [] k = "post_url" -> v.url]
    ELSE [k \in {"posted", "author_name", "title", "Summary", "Tags", "url"} |->
            CASE k = "posted" -> v.date [] k = "author_name" -> v.author
              [] k = "title" -> v.title [] k = "Summary" -> v.summary
              [] k = "Tags" -> v.tags [] k = "url" -> v.url]

FileRows(variant, values) == [i \in 1..Len(values) |-> RawRow(values[i], variant)]

\* parsed.data: the records of the posts CSVs served
PostsData ==
    {FileRows("readme", vs) :
        vs \in {<<>>, <<p_T1>>, <<p_T2>>, <<p_T3>>, <<p_T4>>, <<p_T5>>, <<p_T6>>, <<p_T7>>,
                <<p_T8>>, <<p_T9>>, <<p_T0>>,
                <<p_T1, p_T2>>, <<p_T4, p_T5>>, <<p_T5, p_T4>>, <<p_T1, p_T4>>,
                <<p_T3, p_T1, p_T9>>, <<p_T6, p_T2, p_T1>>, <<p_T7, p_T1, p_T5>>,
                <<p_T1, p_T1, p_T6>>, <<p_T4, p_T2, p_T6, p_T5>>}}
    \cup
    {FileRows("aliases", vs) :
        vs \in {<<p_T3>>, <<p_T0>>, <<p_T3, p_T1, p_T9>>, <<p_T2, p_T4>>}}

\* ------------------------------------------------------------------------
\* Curated dropdown lists
\* ------------------------------------------------------------------------

\* what tryFetchCSV resolved to: null, or the records of the file; a record
\* is its header (the keys in order) and its values
NoFile == [found |-> FALSE, header |-> <<>>, records |-> <<>>]

FileOf(header, records) == [found |-> TRUE, header |-> header, records |-> records]

\* before the curated fetches resolve
NoCurated == [authors |-> NoFile, tags |-> NoFile]

k_author == <<"a", "u", "t", "h", "o", "r">>

k_Name == <<"N", "a", "m", "e">>

k_tag == <<"t", "a", "g">>

k_topics == <<"t", "o", "p", "i", "c", "s">>

authorCandidates ==
    <<k_author, <<"n", "a", "m", "e">>, k_author \o <<"_", "n", "a", "m", "e">>, k_author \o <<"s">>>>

tagCandidates ==
    <<k_tag, k_tag \o <<"s">>, <<"t", "o", "p", "i", "c">>, <<"l", "a", "b", "e", "l">>>>

AuthorFiles ==
    {NoFile, FileOf(<<>>, <<>>),
     FileOf(<<k_Name>>, << <<<<"Z">>>>, <<<<" ", "A">>>>, <<<<"Z">>>> >>)}

TagFiles ==
    {NoFile, FileOf(<<k_topics>>, << <<<<"x">>>>, <<<<"q">>>>, <<<<>>>> >>)}

\* extractCSVList(rows, candidates)
extractCSVList(file, candidates) ==
    IF file.records = <<>> THEN <<>>
    ELSE LET keys == file.header
             \* keyMap[c]: the last key whose lower case is c
             has(c) == \E i \in 1..Len(keys) : toLowerCase(keys[i]) = c
             keyFor(c) == CHOOSE i \in 1..Len(keys) :
                             /\ toLowerCase(keys[i]) = c
                             /\ \A j \in (i + 1)..Len(keys) : toLowerCase(keys[j]) # c
             col == IF \E n \in 1..Len(candidates) : has(candidates[n])
                    THEN keyFor(candidates[CHOOSE n \in 1..Len(candidates) :
                                   has(candidates[n])
                                   /\ \A j \in 1..(n - 1) : ~has(candidates[j])])
                    ELSE IF keys # <<>> THEN 1 ELSE 0
         IN IF col = 0 THEN <<>>
            ELSE uniqueSorted({trim(file.records[i][col]) : i \in 1..Len(file.records)})

allAuthors == uniqueSorted({rows[i].author : i \in 1..Len(rows)})

allTags == uniqueSorted(UNION {Range(rows[i].tags) : i \in 1..Len(rows)})

\* Array.from(new Set(rows.map(r => r.author))).sort(...): empty values kept
sortedDistinct(values) ==
    IF <<>> \in values THEN <<<<>>>> \o uniqueSorted(values) ELSE uniqueSorted(values)

fallbackAuthors(posts) == sortedDistinct({posts[i].author : i \in 1..Len(posts)})

fallbackTags(posts) == sortedDistinct(UNION {Range(posts[i].tags) : i \in 1..Len(posts)})

\* the options a dropdown offers: the curated list if non-empty
optionsOf(curated, computed) == IF curated # <<>> THEN curated ELSE computed

\* every value an option list may offer
AuthorUniverse == {<<"A">>, <<"B">>, <<"b">>, <<"Z">>}

TagUniverse == {<<"x">>, <<"y">>, <<"q">>}

\* the two MultiSelect instances of the page
Dropdowns == {"authors", "tags"}

\* what the search box may hold
SearchTexts == {<<>>, <<" ">>, <<" ", "T", "1">>, <<"y">>}

\* ------------------------------------------------------------------------
\* Init and the handlers
\* ------------------------------------------------------------------------

LimIdle == [list |-> <<>>, max |-> -1, out |-> <<>>, pc |-> "idle"]

NoExtra == [key |-> "", value |-> <<>>]

NrmIdle ==
    [field |-> "", key |-> "", value |-> <<>>, extra |-> NoExtra, out |-> <<>>,
     refFirst |-> <<>>, refExtra |-> <<>>, pc |-> "idle"]

DateIdle == req = EmptyReq /\ out = Null /\ called = "none"

AppIdle ==
    /\ parsed = <<>>
    /\ curatedCSV = NoCurated
    /\ rows = <<>> /\ loading = TRUE /\ error = ""
    /\ authors = {} /\ tags = {}
    /\ period = DefaultPeriod /\ maxResults = DefaultMaxResults /\ search = <<>>
    /\ authorOptions = <<>> /\ tagOptions = <<>>
    /\ filtered = <<>>
    /\ loadPc = "fetching" /\ curatedPc = "idle" /\ mounted = TRUE /\ events = 0
    /\ temp = [w \in Dropdowns |-> {}]
    /\ open = [w \in Dropdowns |-> FALSE]

Init ==
    /\ host \in HostSamples
    /\ now \in {DateOf(19737, 45296789)}
    /\ DateIdle
    /\ AppIdle
    /\ lim = LimIdle
    /\ nrm = NrmIdle

\* the render after a state change: filtered is recomputed from the new
\* rows and filter settings, with the clock as it stands
Recompute ==
    filtered' \in filteredOutcomes(rows', authors', tags', period', search', now)

\* the posts fetch resolved with a body: load(), then the effects its
\* setRows triggers
LoadSucceeds(data) ==
    /\ loadPc = "fetching"
    /\ loadPc' = "done"
    /\ parsed' = data
    /\ IF mounted
       THEN /\ rows' = normalizeAll(data, host, now)
            /\ loading' = FALSE
            /\ curatedPc' = IF rows' # <<>> THEN "fetching" ELSE "idle"
            /\ authorOptions' = IF rows' # <<>> THEN authorOptions ELSE <<>>
            /\ tagOptions' = IF rows' # <<>> THEN tagOptions ELSE <<>>
            /\ authors' = authors \cap Range(optionsOf(authorOptions', allAuthors'))
            /\ tags' = tags \cap Range(optionsOf(tagOptions', allTags'))
            /\ UNCHANGED <<error, period, maxResults, search>>
            /\ Recompute
       ELSE UNCHANGED <<rows, loading, error, authors, tags, period, maxResults, search,
                        authorOptions, tagOptions, filtered, curatedPc>>
    /\ UNCHANGED <<mounted, events, dateVars, lim, nrm, curatedCSV, temp, open>>

\* the catch clause without setError
LoadFailsUnnoticed ==
    /\ loadPc = "fetching"
    /\ loadPc' = "done"
    /\ IF mounted
       THEN /\ error' = error
            /\ rows' = <<>>
            /\ loading' = FALSE
            /\ authorOptions' = <<>>
            /\ tagOptions' = <<>>
            /\ authors' = authors \cap Range(optionsOf(authorOptions', allAuthors'))
            /\ tags' = tags \cap Range(optionsOf(tagOptions', allTags'))
            /\ UNCHANGED <<period, maxResults, search>>
            /\ Recompute
       ELSE UNCHANGED <<rows, loading, error, authors, tags, period, maxResults, search,
                        authorOptions, tagOptions, filtered>>
    /\ UNCHANGED <<curatedPc, mounted, events, dateVars, lim, nrm, parsed, curatedCSV, temp, open>>

\* the posts fetch failed or returned a non-success status
LoadFails ==
    /\ loadPc = "fetching"
    /\ loadPc' = "done"
    /\ IF mounted
       THEN /\ error' = NotFoundNotice
            /\ rows' = <<>>
            /\ loading' = FALSE
            /\ authorOptions' = <<>>
            /\ tagOptions' = <<>>
            /\ authors' = authors \cap Range(optionsOf(authorOptions', allAuthors'))
            /\ tags' = tags \cap Range(optionsOf(tagOptions', allTags'))
            /\ UNCHANGED <<period, maxResults, search>>
            /\ Recompute
       ELSE UNCHANGED <<rows, loading, error, authors, tags, period, maxResults, search,
                        authorOptions, tagOptions, filtered>>
    /\ UNCHANGED <<curatedPc, mounted, events, dateVars, lim, nrm, parsed, curatedCSV, temp, open>>

\* both curated fetches resolved: loadCuratedOptions(), then the two effects
\* that prune the applied selections
CuratedArrives(authorsCSV, tagsCSV) ==
    /\ curatedPc = "fetching"
    /\ curatedPc' = "done"
    /\ curatedCSV' = [authors |-> authorsCSV, tags |-> tagsCSV]
    /\ IF mounted
       THEN /\ authorOptions' = IF authorsCSV.found
                                THEN extractCSVList(authorsCSV, authorCandidates)
                                ELSE fallbackAuthors(rows)
            /\ tagOptions' = IF tagsCSV.found
                             THEN extractCSVList(tagsCSV, tagCandidates)
                             ELSE fallbackTags(rows)
            /\ authors' = authors \cap Range(optionsOf(authorOptions', allAuthors))
            /\ tags' = tags \cap Range(optionsOf(tagOptions', allTags))
            /\ UNCHANGED <<rows, period, search>>
            /\ Recompute
       ELSE UNCHANGED <<authorOptions, tagOptions, authors, tags, filtered, rows,
                        period, search>>
    /\ UNCHANGED <<loading, error, maxResults, loadPc, mounted, events, dateVars, lim, nrm, parsed,
                   temp, open>>

\* the component unmounts: both effect clean-ups set cancelled (an unmount
\* with no fetch pending ends the session, nothing is read or written after it)
Unmount ==
    /\ mounted
    /\ loadPc = "fetching" \/ curatedPc = "fetching"
    /\ mounted' = FALSE
    /\ UNCHANGED <<rows, loading, error, authors, tags, period, maxResults, search,
                   authorOptions, tagOptions, filtered, loadPc, curatedPc, events,
                   dateVars, lim, nrm, parsed, curatedCSV, temp, open>>

\* the controls are rendered once loading is false
CanAct == mounted /\ ~loading /\ events < MaxEvents

\* the options prop of an instance
optionsFor(w) ==
    IF w = "authors"
    THEN Range(optionsOf(authorOptions, allAuthors))
    ELSE Range(optionsOf(tagOptions, allTags))

\* the selected prop of an instance
selectedOf(w) == IF w = "authors" THEN authors ELSE tags

\* the dropdown button while the menu is closed: openMenu()
openMenu(w) ==
    /\ CanAct
    /\ ~open[w]
    /\ temp' = [temp EXCEPT ![w] = selectedOf(w)]
    /\ open' = [open EXCEPT ![w] = TRUE]
    /\ events' = events + 1
    /\ UNCHANGED <<rows, loading, error, authors, tags, period, maxResults, search,
                   authorOptions, tagOptions, filtered, loadPc, curatedPc, mounted,
                   dateVars, lim, nrm, parsed, curatedCSV>>

\* the dropdown button while the menu is open, Escape, or a mouse press
\* outside the dropdown: setOpen(false)
closeMenu(w) ==
    /\ CanAct
    /\ open[w]
    /\ open' = [open EXCEPT ![w] = FALSE]
    /\ events' = events + 1
    /\ UNCHANGED <<rows, loading, error, authors, tags, period, maxResults, search,
                   authorOptions, tagOptions, filtered, loadPc, curatedPc, mounted,
                   dateVars, lim, nrm, parsed, curatedCSV, temp>>

\* a checkbox of the open menu: one is rendered for every option offered
toggle(w, item) ==
    /\ CanAct
    /\ open[w]
    /\ item \in optionsFor(w)
    /\ temp' = [temp EXCEPT ![w] = IF item \in @ THEN @ \ {item} ELSE @ \cup {item}]
    /\ events' = events + 1
    /\ UNCHANGED <<rows, loading, error, authors, tags, period, maxResults, search,
                   authorOptions, tagOptions, filtered, loadPc, curatedPc, mounted,
                   dateVars, lim, nrm, parsed, curatedCSV, open>>

\* Apply (closeAfter = FALSE) and Done (closeAfter = TRUE): onChange(temp).
\* The effects that prune the selections depend on the option lists only and
\* do not run again
apply(w, closeAfter) ==
    /\ CanAct
    /\ open[w]
    /\ authors' = IF w = "authors" THEN temp[w] ELSE authors
    /\ tags' = IF w = "tags" THEN temp[w] ELSE tags
    /\ open' = [open EXCEPT ![w] = ~closeAfter]
    /\ UNCHANGED <<rows, period, search>>
    /\ Recompute
    /\ events' = events + 1
    /\ UNCHANGED <<loading, error, maxResults, authorOptions, tagOptions, loadPc, curatedPc,
                   mounted, dateVars, lim, nrm, parsed, curatedCSV, temp>>

\* Clear: setTemp([]), onChange([])
clear(w) ==
    /\ CanAct
    /\ open[w]
    /\ temp' = [temp EXCEPT ![w] = {}]
    /\ authors' = IF w = "authors" THEN {} ELSE authors
    /\ tags' = IF w = "tags" THEN {} ELSE tags
    /\ UNCHANGED <<rows, period, search>>
    /\ Recompute
    /\ events' = events + 1
    /\ UNCHANGED <<loading, error, maxResults, authorOptions, tagOptions, loadPc, curatedPc,
                   mounted, dateVars, lim, nrm, parsed, curatedCSV, open>>

SetPeriod(p) ==
    /\ CanAct
    /\ p # period
    /\ period' = p
    /\ UNCHANGED <<rows, authors, tags, search>>
    /\ Recompute
    /\ events' = events + 1
    /\ UNCHANGED <<loading, error, maxResults, authorOptions, tagOptions, loadPc, curatedPc,
                   mounted, dateVars, lim, nrm, parsed, curatedCSV, temp, open>>

SetMaxResults(m) ==
    /\ CanAct
    /\ m # maxResults
    /\ maxResults' = m
    /\ events' = events + 1
    /\ UNCHANGED <<rows, loading, error, authors, tags, period, search, authorOptions,
                   tagOptions, filtered, loadPc, curatedPc, mounted, dateVars, lim, nrm, parsed, curatedCSV, temp, open>>

SetSearch(q) ==
    /\ CanAct
    /\ q # search
    /\ search' = q
    /\ UNCHANGED <<rows, authors, tags, period>>
    /\ Recompute
    /\ events' = events + 1
    /\ UNCHANGED <<loading, error, maxResults, authorOptions, tagOptions, loadPc, curatedPc,
                   mounted, dateVars, lim, nrm, parsed, curatedCSV, temp, open>>

\* the Reset button
Reset ==
    /\ CanAct
    /\ authors' = {}
    /\ tags' = {}
    /\ search' = <<>>
    /\ period' = DefaultPeriod
    /\ UNCHANGED rows
    /\ Recompute
    /\ events' = events + 1
    /\ UNCHANGED <<loading, error, maxResults, authorOptions, tagOptions, loadPc, curatedPc,
                   mounted, dateVars, lim, nrm, parsed, curatedCSV, temp, open>>

Next ==
    \/ \E data \in PostsData : LoadSucceeds(data)
    \/ LoadFails
    \/ \E a \in AuthorFiles, t \in TagFiles : CuratedArrives(a, t)
    \/ Unmount
    \/ \E w \in Dropdowns : openMenu(w)
    \/ \E w \in Dropdowns : closeMenu(w)
    \/ \E w \in Dropdowns, item \in AuthorUniverse \cup TagUniverse : toggle(w, item)
    \/ \E w \in Dropdowns, closeAfter \in BOOLEAN : apply(w, closeAfter)
    \/ \E w \in Dropdowns : clear(w)
    \/ \E p \in PeriodOptions : SetPeriod(p)
    \/ \E m \in MaxResultsOptions : SetMaxResults(m)
    \/ \E q \in SearchTexts : SetSearch(q)
    \/ Reset

Spec == Init /\ [][Next]_vars

\* limited: the memo of filtered and maxResults
limited == limitTo(filtered, maxResults)

\* ------------------------------------------------------------------------
\* The date normalizer alone: one call on one request
\* ------------------------------------------------------------------------

DateInit ==
    /\ AppIdle
    /\ lim = LimIdle
    /\ nrm = NrmIdle
    /\ req \in Requests
    /\ host \in HostSamples
    /\ now \in NowSamples
    /\ out = Null
    /\ called = "none"

CallParseDateSafe ==
    /\ called = "none"
    /\ out' = parseDateSafe(TextOf(req), host)
    /\ called' = "parseDateSafe"
    /\ UNCHANGED <<req, host, now, appVars, lim, nrm>>

CallParseRelative ==
    /\ called = "none"
    /\ out' = parseRelativeLinkedInDate(TextOf(req), now)
    /\ called' = "parseRelativeLinkedInDate"
    /\ UNCHANGED <<req, host, now, appVars, lim, nrm>>

CallParseAnyDate ==
    /\ called = "none"
    /\ out' = parseAnyDate(TextOf(req), host, now)
    /\ called' = "parseAnyDate"
    /\ UNCHANGED <<req, host, now, appVars, lim, nrm>>

DateNext == CallParseDateSafe \/ CallParseRelative \/ CallParseAnyDate

SpecDate == DateInit /\ [][DateNext]_vars

\* ------------------------------------------------------------------------
\* The second relative-date parser, parseLinkedInRelative of
\* utils/relativeDate.js (src/unnamed/part_000); its result is posted_at
\* ------------------------------------------------------------------------

\* \w of a regular expression
isWordChar(c) == isDigit(c) \/ isLetter(c) \/ (\E i \in 1..26 : UpperLetters[i] = c) \/ c = "_"

startsWithAt(s, i, w) ==
    /\ i + Len(w) - 1 <= Len(s)
    /\ SubSeq(s, i, i + Len(w) - 1) = w

\* s.replace(/w/g, ""): every occurrence of w, left to right, taken out
RECURSIVE removeAll(_, _)
removeAll(s, w) ==
    IF s = <<>> THEN <<>>
    ELSE IF startsWithAt(s, 1, w) THEN removeAll(SubSeq(s, Len(w) + 1, Len(s)), w)
    ELSE <<Head(s)>> \o removeAll(Tail(s), w)

\* s.replace(/\bw\b/g, ""): every occurrence of the word w that no word
\* character touches
RECURSIVE removeWordFrom(_, _, _)
removeWordFrom(s, i, w) ==
    IF i > Len(s) THEN <<>>
    ELSE IF /\ startsWithAt(s, i, w)
            /\ (i = 1 \/ ~isWordChar(s[i - 1]))
            /\ (i + Len(w) > Len(s) \/ ~isWordChar(s[i + Len(w)]))
    THEN removeWordFrom(s, i + Len(w), w)
    ELSE <<s[i]>> \o removeWordFrom(s, i + 1, w)

\* s.replace(/[MIDDOT BULLET]/g, " ")
replaceDots(s) == replaceChar(replaceChar(s, "MIDDOT"), "BULLET")

\* s.replace(/\s+/g, " "): every run of white space becomes one space
RECURSIVE collapseWhiteSpace(_)
collapseWhiteSpace(s) ==
    IF s = <<>> THEN <<>>
    ELSE IF IsWhiteSpace(Head(s))
    THEN (IF Len(s) > 1 /\ IsWhiteSpace(s[2]) THEN <<>> ELSE <<" ">>)
         \o collapseWhiteSpace(Tail(s))
    ELSE <<Head(s)>> \o collapseWhiteSpace(Tail(s))

edited == <<"e", "d", "i", "t", "e", "d">>

\* the chain of replacements on String(input).toLowerCase()
cleanRelative(input) ==
    trim(collapseWhiteSpace(removeWordFrom(replaceDots(removeAll(toLowerCase(input), edited)),
                                           1, ago)))

digitAt(s, i) == i >= 1 /\ i <= Len(s) /\ isDigit(s[i])

charAt(s, i, c) == i >= 1 /\ i <= Len(s) /\ s[i] = c

\* /\d{4}-\d{1,2}-\d{1,2}/.test(s)
testDashDate(s) ==
    \E i \in 1..Len(s) :
        /\ \A k \in 0..3 : digitAt(s, i + k)
        /\ charAt(s, i + 4, "-")
        /\ digitAt(s, i + 5)
        /\ \/ (charAt(s, i + 6, "-") /\ digitAt(s, i + 7))
           \/ (digitAt(s, i + 6) /\ charAt(s, i + 7, "-") /\ digitAt(s, i + 8))

\* /\d{1,2}\/\d{1,2}\/\d{2,4}/.test(s)
testSlashDate(s) ==
    \E i \in 1..Len(s) :
        /\ digitAt(s, i)
        /\ charAt(s, i + 1, "/")
        /\ digitAt(s, i + 2)
        /\ \/ (charAt(s, i + 3, "/") /\ digitAt(s, i + 4) /\ digitAt(s, i + 5))
           \/ (digitAt(s, i + 3) /\ charAt(s, i + 4, "/") /\ digitAt(s, i + 5)
               /\ digitAt(s, i + 6))

\* new Date(s): a YYYY-MM-DD string naming a calendar date is UTC midnight of
\* that date (the ECMAScript date format, years 0000 to 0099 as written);
\* what any other string gives is up to the host
newDateOf(s, hostDate) ==
    IF matchesIsoDate(s)
    THEN LET y == Number(SubSeq(s, 1, 4))
             mo == Number(SubSeq(s, 6, 7))
             d == Number(SubSeq(s, 9, 10))
         IN IF mo >= 1 /\ mo <= 12 /\ d >= 1 /\ d <= CalendarDaysInMonth(y, mo)
            THEN MakeDateFromDay(MakeDay(y, mo - 1, d), 0)
            ELSE hostDate
    ELSE newDateFromString(s, hostDate)

\* the unit alternatives of the match: yrs?|years?|y|mos?|months?|mo|wks?|
\* weeks?|w|days?|d|hrs?|hours?|h|mins?|minutes?|m
matchUnits ==
    {<<"y", "r">>, <<"y", "r", "s">>, <<"y", "e", "a", "r">>, <<"y", "e", "a", "r", "s">>, <<"y">>, <<"m", "o">>, <<"m", "o", "s">>, <<"m", "o", "n", "t", "h">>, <<"m", "o", "n", "t", "h", "s">>, <<"w", "k">>, <<"w", "k", "s">>, <<"w", "e", "e", "k">>, <<"w", "e", "e", "k", "s">>, <<"w">>, <<"d", "a", "y">>, <<"d", "a", "y", "s">>, <<"d">>, <<"h", "r">>, <<"h", "r", "s">>, <<"h", "o", "u", "r">>, <<"h", "o", "u", "r", "s">>, <<"h">>, <<"m", "i", "n">>, <<"m", "i", "n", "s">>, <<"m", "i", "n", "u", "t", "e">>, <<"m", "i", "n", "u", "t", "e", "s">>, <<"m">>}

\* the end of the run of characters satisfying a test that starts at i
\* (i - 1 when s[i] does not)
RECURSIVE digitsEnd(_, _)
digitsEnd(s, i) == IF digitAt(s, i) THEN digitsEnd(s, i + 1) ELSE i - 1

RECURSIVE spacesEnd(_, _)
spacesEnd(s, i) ==
    IF i <= Len(s) /\ IsWhiteSpace(s[i]) THEN spacesEnd(s, i + 1) ELSE i - 1

RECURSIVE wordEnd(_, _)
wordEnd(s, i) == IF i <= Len(s) /\ isWordChar(s[i]) THEN wordEnd(s, i + 1) ELSE i - 1

\* the match of /(\d+)\s*(unit)\b/ that starts at the digit run at i, if
\* any: the run, white space, then a unit that ends its word
unitAfter(s, i) ==
    LET k == spacesEnd(s, digitsEnd(s, i) + 1) + 1
    IN SubSeq(s, k, wordEnd(s, k))

matchesAt(s, i) ==
    /\ digitAt(s, i)
    /\ ~digitAt(s, i - 1)
    /\ unitAfter(s, i) \in matchUnits

\* s.match(...): [found, qty, unit] of the leftmost match
matchQuantityUnit(s) ==
    IF \E i \in 1..Len(s) : matchesAt(s, i)
    THEN LET i == CHOOSE k \in 1..Len(s) :
                     matchesAt(s, k) /\ \A j \in 1..(k - 1) : ~matchesAt(s, j)
         IN [found |-> TRUE, qty |-> Number(SubSeq(s, i, digitsEnd(s, i))),
             unit |-> unitAfter(s, i)]
    ELSE [found |-> FALSE, qty |-> 0, unit |-> <<>>]

\* the chain of tests on unit; what each regular expression accepts:
\* /^y(ear|rs)?\b|^yrs?$/ y, year, yrs, yr (not years: no word boundary
\* follows "year" there); /^mo(nth|nths|s)?$/; /^w(k|ks|eek|eeks)?$/;
\* /^d(ay|ays)?$/; /^h(r|rs|our|ours)?$/; /^m(in|ins|inute|inutes)?$/
kindOfMatchedUnit(unit) ==
    IF unit \in {<<"y">>, <<"y", "e", "a", "r">>, <<"y", "r", "s">>, <<"y", "r">>} THEN "year"
    ELSE IF unit \in {<<"m", "o">>, <<"m", "o", "n", "t", "h">>, <<"m", "o", "n", "t", "h", "s">>, <<"m", "o", "s">>} THEN "month"
    ELSE IF unit \in {<<"w">>, <<"w", "k">>, <<"w", "k", "s">>, <<"w", "e", "e", "k">>, <<"w", "e", "e", "k", "s">>} THEN "week"
    ELSE IF unit \in {<<"d">>, <<"d", "a", "y">>, <<"d", "a", "y", "s">>} THEN "day"
    ELSE IF unit \in {<<"h">>, <<"h", "r">>, <<"h", "r", "s">>, <<"h", "o", "u", "r">>, <<"h", "o", "u", "r", "s">>} THEN "hr"
    ELSE IF unit \in {<<"m">>, <<"m", "i", "n">>, <<"m", "i", "n", "s">>, <<"m", "i", "n", "u", "t", "e">>, <<"m", "i", "n", "u", "t", "e", "s">>} THEN "min"
    ELSE "none"

\* d.setFullYear / setMonth / setDate / setHours / setMinutes on a host
\* whose local time zone is UTC
subtractLocalUnits(d, kind, qty) ==
    CASE kind = "year" -> setUTCFullYear(d, getUTCFullYear(d) - qty)
      [] kind = "month" -> setUTCMonth(d, getUTCMonth(d) - qty)
      [] kind = "week" -> setUTCDate(d, getUTCDate(d) - qty * 7)
      [] kind = "day" -> setUTCDate(d, getUTCDate(d) - qty)
      [] kind = "hr" -> setUTCHours(d, getUTCHours(d) - qty)
      [] kind = "min" -> setUTCMinutes(d, getUTCMinutes(d) - qty)

\* parseLinkedInRelative(input, now).posted_at
parseLinkedInRelative(input, nowDate, hostDate) ==
    IF input = <<>> THEN Null
    ELSE LET s == cleanRelative(input)
             abs == newDateOf(s, hostDate)
             mt == matchQuantityUnit(s)
         IN IF s = justNow \/ s = <<"n", "o", "w">> THEN nowDate
            ELSE IF (testDashDate(s) \/ testSlashDate(s)) /\ abs.kind = "date" THEN abs
            ELSE IF ~mt.found THEN Null
            ELSE IF kindOfMatchedUnit(mt.unit) = "none" THEN Null
            ELSE subtractLocalUnits(nowDate, kindOfMatchedUnit(mt.unit), mt.qty)

\* ------------------------------------------------------------------------
\* The two relative parsers on one text of the grammar
\* [about|approx|approximately] <integer> <unit> [ago], or a literal
\* ------------------------------------------------------------------------

GrammarLiterals == {justNow, <<"n", "o", "w">>, yesterday}

GrammarPhrases ==
    {r \in PhraseRequests : r.qty.class = "numeral" /\ r.qty.val <= 400 /\ r.unit \in TableUnits}

\* the phrase as it stands, or with the marker before or after it
EditedForms(text) == {text, edited \o <<" ">> \o text, text \o <<" ">> \o edited}

GrammarTexts ==
    GrammarLiterals \cup UNION {EditedForms(TextOf(r)) : r \in GrammarPhrases}

RelInit ==
    /\ AppIdle
    /\ lim = LimIdle
    /\ nrm = NrmIdle
    /\ req \in {[EmptyReq EXCEPT !.text = x] : x \in GrammarTexts}
    /\ host = InvalidDate
    /\ now \in NowSamples
    /\ out = Null
    /\ called = "none"

\* both parsers applied to the text, with the same now
CallBothRelative ==
    /\ called = "none"
    /\ out' = [main |-> parseRelativeLinkedInDate(req.text, now),
               other |-> parseLinkedInRelative(req.text, now, host)]
    /\ called' = "both"
    /\ UNCHANGED <<req, host, now, appVars, lim, nrm>>

RelNext == CallBothRelative

SpecRel == RelInit /\ [][RelNext]_vars

\* ------------------------------------------------------------------------
\* The limit step alone: limited computed from a list and a maximum of any
\* value, not only the four the select offers
\* ------------------------------------------------------------------------

\* the longest list tried
MaxListLen == 3

\* the maxima tried are -MaxLimit .. MaxLimit
MaxLimit == 4

\* stand-ins for the posts of the list
ListItems == {"p", "q"}

Lists == UNION {[1..n -> ListItems] : n \in 0..MaxListLen}

LimitInit ==
    /\ AppIdle
    /\ DateIdle
    /\ host = InvalidDate
    /\ now = DateOf(19737, 45296789)
    /\ nrm = NrmIdle
    /\ lim \in {[list |-> l, max |-> k, out |-> <<>>, pc |-> "ready"] :
                  l \in Lists, k \in (-MaxLimit)..MaxLimit}

CallLimit ==
    /\ lim.pc = "ready"
    /\ lim' = [lim EXCEPT !.out = limitTo(lim.list, lim.max), !.pc = "done"]
    /\ UNCHANGED <<dateVars, appVars, nrm>>

LimitNext == CallLimit

SpecLimit == LimitInit /\ [][LimitNext]_vars

\* ------------------------------------------------------------------------
\* normalizeRow alone: one row, the value of one logical field carried under
\* one spelling of a header, possibly with a second header of the same field
\* ------------------------------------------------------------------------

\* the header under which the value of a logical field is looked for first
\* by the reader of a canonical row
CanonicalKey(field) ==
    CASE field = "include" -> "include" [] field = "date" -> "posted_iso"
      [] field = "author" -> "author" [] field = "title" -> "headline"
      [] field = "summary" -> "summary" [] field = "tags" -> "tags"
      [] field = "url" -> "post_url"

\* a value of each logical field, and another
FieldValue(field) ==
    CASE field = "include" -> <<"N">>
      [] field = "date" -> <<"2", "0", "2", "4", "-", "0", "1", "-", "1", "0">>
      [] field = "author" -> <<"A">>
      [] field = "title" -> <<"T", "1">>
      [] field = "summary" -> <<"s">>
      [] field = "tags" -> <<"x", ",", "y">>
      [] field = "url" -> <<"u", "1">>

OtherValue(field) ==
    CASE field = "include" -> <<"y", "e", "s">>
      [] field = "date" -> <<"3", " ", "d", "a", "y", "s", " ", "a", "g", "o">>
      [] field = "author" -> <<"B">>
      [] field = "title" -> <<"T", "2">>
      [] field = "summary" -> <<"r">>
      [] field = "tags" -> <<"q">>
      [] field = "url" -> <<"u", "2">>

Fields == {"include", "date", "author", "title", "summary", "tags", "url"}

\* a row with every field under its canonical header
CanonicalRow == [k \in {CanonicalKey(f) : f \in Fields} |->
                    FieldValue(CHOOSE f \in Fields : CanonicalKey(f) = k)]

\* the canonical row, the field's header replaced by key with the value, and
\* the extra header added
RowWith(field, key, value, extra) ==
    LET others == DOMAIN CanonicalRow \ {CanonicalKey(field)}
        added == IF extra = NoExtra THEN {key} ELSE {key, extra.key}
    IN [k \in others \cup added |->
           IF k = key THEN value
           ELSE IF extra # NoExtra /\ k = extra.key THEN extra.value
           ELSE CanonicalRow[k]]

\* the header spellings tried: every alias of the header row in lower case,
\* upper case and capitalized
Spellings ==
    {[field |-> "include", key |-> "include"],
     [field |-> "include", key |-> "INCLUDE"],
     [field |-> "include", key |-> "Include"],
     [field |-> "date", key |-> "posted_iso"],
     [field |-> "date", key |-> "POSTED_ISO"],
     [field |-> "date", key |-> "Posted_iso"],
     [field |-> "date", key |-> "post_date_iso"],
     [field |-> "date", key |-> "POST_DATE_ISO"],
     [field |-> "date", key |-> "Post_date_iso"],
     [field |-> "date", key |-> "date"],
     [field |-> "date", key |-> "DATE"],
     [field |-> "date", key |-> "Date"],
     [field |-> "date", key |-> "posted"],
     [field |-> "date", key |-> "POSTED"],
     [field |-> "date", key |-> "Posted"],
     [field |-> "author", key |-> "author"],
     [field |-> "author", key |-> "AUTHOR"],
     [field |-> "author", key |-> "Author"],
     [field |-> "author", key |-> "author_name"],
     [field |-> "author", key |-> "AUTHOR_NAME"],
     [field |-> "author", key |-> "Author_name"],
     [field |-> "title", key |-> "headline"],
     [field |-> "title", key |-> "HEADLINE"],
     [field |-> "title", key |-> "Headline"],
     [field |-> "title", key |-> "title"],
     [field |-> "title", key |-> "TITLE"],
     [field |-> "title", key |-> "Title"],
     [field |-> "summary", key |-> "summary"],
     [field |-> "summary", key |-> "SUMMARY"],
     [field |-> "summary", key |-> "Summary"],
     [field |-> "tags", key |-> "tags"],
     [field |-> "tags", key |-> "TAGS"],
     [field |-> "tags", key |-> "Tags"],
     [field |-> "url", key |-> "post_url"],
     [field |-> "url", key |-> "POST_URL"],
     [field |-> "url", key |-> "Post_url"],
     [field |-> "url", key |-> "url"],
     [field |-> "url", key |-> "URL"],
     [field |-> "url", key |-> "Url"],
     [field |-> "url", key |-> "href"],
     [field |-> "url", key |-> "HREF"],
     [field |-> "url", key |-> "Href"],
     [field |-> "url", key |-> "Post_URL"],
     [field |-> "author", key |-> "Author_Name"]}

\* two headers of one field in one row: the first the code reads and a later one
HeaderPairs ==
    {[field |-> "include", key |-> "Include", later |-> "include"],
     [field |-> "include", key |-> "Include", later |-> "INCLUDE"],
     [field |-> "date", key |-> "posted_iso", later |-> "post_date_iso"],
     [field |-> "date", key |-> "posted_iso", later |-> "date"],
     [field |-> "date", key |-> "posted_iso", later |-> "posted"],
     [field |-> "author", key |-> "author", later |-> "author_name"],
     [field |-> "author", key |-> "author", later |-> "Author"],
     [field |-> "title", key |-> "headline", later |-> "title"],
     [field |-> "summary", key |-> "summary", later |-> "Summary"],
     [field |-> "tags", key |-> "tags", later |-> "Tags"],
     [field |-> "url", key |-> "post_url", later |-> "url"],
     [field |-> "url", key |-> "post_url", later |-> "href"]}

NrmRequests ==
    UNION {{[NrmIdle EXCEPT !.field = s.field, !.key = s.key, !.value = v, !.pc = "ready"] :
               v \in {FieldValue(s.field), OtherValue(s.field)}} : s \in Spellings}
    \cup
    UNION {{[NrmIdle EXCEPT !.field = p.field, !.key = p.key, !.value = v,
                            !.extra = [key |-> p.later, value |-> OtherValue(p.field)],
                            !.pc = "ready"] :
               v \in {FieldValue(p.field), <<>>}} : p \in HeaderPairs}

RowInit ==
    /\ AppIdle
    /\ DateIdle
    /\ lim = LimIdle
    /\ host = InvalidDate
    /\ now = DateOf(19737, 45296789)
    /\ nrm \in NrmRequests

CallNormalizeRow ==
    /\ nrm.pc = "ready"
    /\ nrm' = [nrm EXCEPT
                 !.out = normalizeRow(RowWith(nrm.field, nrm.key, nrm.value, nrm.extra),
                                      host, now),
                 !.refFirst = normalizeRow(RowWith(nrm.field, CanonicalKey(nrm.field),
                                                   nrm.value, NoExtra), host, now),
                 !.refExtra = normalizeRow(RowWith(nrm.field, CanonicalKey(nrm.field),
                                                   nrm.extra.value, NoExtra), host, now),
                 !.pc = "done"]
    /\ UNCHANGED <<dateVars, appVars, lim>>

RowNext == CallNormalizeRow

SpecRow == RowInit /\ [][RowNext]_vars

\* ------------------------------------------------------------------------
\* The calendar, computed independently of the Date operations above
\* (proleptic Gregorian, by eras of 400 years), for stating the claims
\* ------------------------------------------------------------------------

\* day number since 1970-01-01 of the calendar date y-m-d (m in 1..12)
CivilDays(y, m, d) ==
    LET yy == IF m <= 2 THEN y - 1 ELSE y
        era == yy \div 400
        yoe == yy - era * 400
        mp == IF m > 2 THEN m - 3 ELSE m + 9
        doy == ((153 * mp + 2) \div 5) + d - 1
        doe == yoe * 365 + (yoe \div 4) - (yoe \div 100) + doy
    IN era * 146097 + doe - 719468

\* the calendar date [y, m, d] (m in 1..12) of a day number
CivilFromDays(day) ==
    LET z == day + 719468
        era == z \div 146097
        doe == z - era * 146097
        yoe == (doe - (doe \div 1460) + (doe \div 36524) - (doe \div 146096)) \div 365
        doy == doe - (365 * yoe + (yoe \div 4) - (yoe \div 100))
        mp == (5 * doy + 2) \div 153
        mm == IF mp < 10 THEN mp + 3 ELSE mp - 9
    IN [y |-> yoe + era * 400 + (IF mm <= 2 THEN 1 ELSE 0), m |-> mm,
        d |-> doy - ((153 * mp + 2) \div 5) + 1]

\* a <= b on valid dates
DateLE(a, b) == a.day < b.day \/ (a.day = b.day /\ a.ms <= b.ms)

\* nowDate minus n units of the bucket: minutes, hours, days and weeks by
\* their length, months and years on the calendar fields (a day of the
\* month the target month lacks runs on into the next month)
ExpectedMinus(nowDate, bucket, n) ==
    LET c == CivilFromDays(nowDate.day)
    IN CASE bucket = "minute" ->
              LET t == nowDate.day * 1440 + (nowDate.ms \div 60000) - n
              IN DateOf(t \div 1440, (t % 1440) * 60000 + (nowDate.ms % 60000))
         [] bucket = "hour" ->
              LET t == nowDate.day * 24 + (nowDate.ms \div 3600000) - n
              IN DateOf(t \div 24, (t % 24) * 3600000 + (nowDate.ms % 3600000))
         [] bucket = "day" -> DateOf(nowDate.day - n, nowDate.ms)
         [] bucket = "week" -> DateOf(nowDate.day - 7 * n, nowDate.ms)
         [] bucket = "month" ->
              LET t == c.y * 12 + (c.m - 1) - n
              IN DateOf(CivilDays(t \div 12, (t % 12) + 1, 1) + c.d - 1, nowDate.ms)
         [] bucket = "year" ->
              DateOf(CivilDays(c.y - n, c.m, 1) + c.d - 1, nowDate.ms)

\* ------------------------------------------------------------------------
\* Claims about the date normalizer (checked under SpecDate)
\* ------------------------------------------------------------------------

\* ------------------------------------------------------------------------
\* Claims on the load and on the filter, sort and limit steps
\* ------------------------------------------------------------------------

\* the times each value occurs in a sequence
BagOfSeq(s) == [x \in Range(s) |-> Cardinality({i \in 1..Len(s) : s[i] = x})]

\* the inclusion flag resolves to true: absent or blank, or y, yes, 1 or
\* true after trimming, in any case
FlagResolvesTrue(v) ==
    \/ \A i \in 1..Len(v) : IsWhiteSpace(v[i])
    \/ toLowerCase(trim(v)) \in {<<"y">>, <<"y", "e", "s">>, <<"1">>, <<"t", "r", "u", "e">>}

IsSurfaced(r) ==
    /\ trim(r.title) # <<>>
    /\ trim(r.url) # <<>>
    /\ FlagResolvesTrue(r.include)

NoStageActive == authors = {} /\ tags = {} /\ period = -1 /\ trim(search) = <<>>

\* C2: the filtered result holds only posts of rows, each at most as often
\* as rows does; with no stage active (no authors, no tags, period -1,
\* blank search) it holds exactly the posts of rows.
C2_FilterNarrows ==
    /\ BagOfSeq(filtered) \sqsubseteq BagOfSeq(rows)
    /\ NoStageActive => BagOfSeq(filtered) = BagOfSeq(rows)

\* C2 witness: no stage is active, the search box holding a blank, and
\* rows holds several posts, one of them without a date
C2_Witness ==
    /\ NoStageActive
    /\ search # <<>>
    /\ Len(rows) >= 2
    /\ \E i \in 1..Len(rows) : rows[i].dateObj = Null
    /\ filtered # <<>>

\* the post is dated, at or after the instant periodDays days before nowDate
WithinPeriod(r, periodDays, nowDate) ==
    /\ r.dateObj.kind = "date"
    /\ DateLE(DateOf(nowDate.day - periodDays, nowDate.ms), r.dateObj)

\* the posts of a list that a period keeps, the other stages applied as the
\* filter applies them
KeptByPeriod(posts) ==
    LET keep(r) ==
            /\ authorStage(r, authors)
            /\ tagStage(r, tags)
            /\ searchStage(r, search)
            /\ (period # -1 => WithinPeriod(r, period, now))
    IN SelectSeq(posts, keep)

\* C3: the period stage is active iff period is not -1; active, it keeps
\* exactly the posts whose dateObj is present and not before now minus
\* period days, so no post without a dateObj; inactive, it lets every post
\* through, those without a dateObj too.
C3_PeriodStage ==
    /\ BagOfSeq(filtered) = BagOfSeq(KeptByPeriod(rows))
    /\ period # -1 => \A i \in 1..Len(filtered) : filtered[i].dateObj # Null

\* C3 witness: the period is active, rows holds a post without a date and a
\* post older than the period, and a post within the period is kept
C3_Witness ==
    /\ period # -1
    /\ \E i \in 1..Len(rows) : rows[i].dateObj = Null
    /\ \E i \in 1..Len(rows) :
          rows[i].dateObj.kind = "date" /\ ~WithinPeriod(rows[i], period, now)
    /\ filtered # <<>>

\* the time a post sorts by: its dateObj's, epoch zero when absent
SortDay(r) == IF r.dateObj = Null THEN 0 ELSE r.dateObj.day

SortMs(r) == IF r.dateObj = Null THEN 0 ELSE r.dateObj.ms

SameTime(a, b) ==
    /\ a.dateObj.kind # "invalid" /\ b.dateObj.kind # "invalid"
    /\ SortDay(a) = SortDay(b) /\ SortMs(a) = SortMs(b)

\* a's time >= b's (no time value compares with that of an invalid Date)
NotOlder(a, b) ==
    /\ a.dateObj.kind # "invalid" /\ b.dateObj.kind # "invalid"
    /\ \/ SortDay(a) > SortDay(b)
       \/ (SortDay(a) = SortDay(b) /\ SortMs(a) >= SortMs(b))

\* C4: the sorted output is a permutation of the posts the stages keep; of
\* every adjacent pair the first is not older than the second, on equal
\* times its author is not after the second's, and on equal time and author
\* its title is not after the second's; and no post without a dateObj
\* stands before a post with one.
C4_SortedNewestFirst ==
    /\ BagOfSeq(filtered) = BagOfSeq(filterPosts(rows, authors, tags, period, search, now))
    /\ \A i \in 1..(Len(filtered) - 1) :
          LET a == filtered[i]
              b == filtered[i + 1]
          IN /\ NotOlder(a, b)
             /\ SameTime(a, b) => localeCompare(a.author, b.author) <= 0
             /\ (SameTime(a, b) /\ a.author = b.author)
                    => localeCompare(a.title, b.title) <= 0
    /\ \A i, j \in 1..Len(filtered) :
          i < j => ~(filtered[i].dateObj = Null /\ filtered[j].dateObj # Null)

Least(a, b) == IF a < b THEN a ELSE b

\* C5 as the code has it: the limit step returns the list unchanged when
\* max is -1 or 0; for max > 0 its first min(max, length) elements in
\* order; and for max < -1 the list without its last -max elements (the
\* empty list when it has no more than that).
C5_LimitAsCoded ==
    (lim.pc = "done") =>
        /\ lim.max \in {-1, 0} => lim.out = lim.list
        /\ lim.max > 0 => lim.out = SubSeq(lim.list, 1, Least(lim.max, Len(lim.list)))
        /\ lim.max < -1 =>
              /\ Len(lim.out) = (IF Len(lim.list) > -lim.max
                                 THEN Len(lim.list) + lim.max ELSE 0)
              /\ \A i \in 1..Len(lim.out) : lim.out[i] = lim.list[i]

\* C5 witness: the limit has been applied with max 0 to a list that is not
\* empty
C5_Witness == lim.pc = "done" /\ lim.max = 0 /\ lim.list # <<>>

\* C5: the limit step returns the list unchanged when max is -1; for
\* max > 0 its first min(max, length) elements in order; and the empty list
\* for every other max <= 0.
C5_LimitAsStated ==
    (lim.pc = "done") =>
        /\ lim.max = -1 => lim.out = lim.list
        /\ lim.max > 0 => lim.out = SubSeq(lim.list, 1, Least(lim.max, Len(lim.list)))
        /\ (lim.max <= 0 /\ lim.max # -1) => lim.out = <<>>

\* C6: for every YYYY-MM-DD string naming a valid calendar date, years 0000
\* to 9999, parseDateSafe returns 00:00:00.000 UTC of that year, month, day.
C6_IsoDateIsUtcMidnight ==
    (called = "parseDateSafe" /\ req.k = "iso")
        => out = DateOf(CivilDays(req.y, req.m, req.d), 0)

\* C6, the years the code gets right: the same statement for years 0100 to
\* 9999.
C6_IsoDateFromYear100 ==
    (called = "parseDateSafe" /\ req.k = "iso" /\ req.y >= 100)
        => out = DateOf(CivilDays(req.y, req.m, req.d), 0)

\* C7: for every non-negative integer n and every unit form of the table,
\* with or without a prefix, with or without 'ago', spaced or compact, the
\* relative parser returns now minus n units of the form's bucket.
C7_RelativeIsNowMinusUnits ==
    (/\ called = "parseRelativeLinkedInDate"
     /\ req.k = "phrase"
     /\ req.qty.class = "numeral"
     /\ req.unit \in TableUnits)
        => (out.kind = "date" /\ out = ExpectedMinus(now, req.unit.bucket, req.qty.val))

\* C7, the quantities whose result is a time value: the same statement for
\* n up to 400.
C7_RelativeWithinDateRange ==
    (/\ called = "parseRelativeLinkedInDate"
     /\ req.k = "phrase"
     /\ req.qty.class = "numeral"
     /\ req.qty.val <= 400
     /\ req.unit \in TableUnits)
        => (out.kind = "date" /\ out = ExpectedMinus(now, req.unit.bucket, req.qty.val))

\* C8: "just now" and "now" both yield now, "yesterday" yields now minus one
\* calendar day.
C8_LiteralPhrases ==
    (called = "parseAnyDate" /\ req.k = "lit")
        => /\ (req.text \in {justNow, <<"n", "o", "w">>} => out = now)
           /\ (req.text = yesterday => out = DateOf(now.day - 1, now.ms))

\* the input fails to tokenize: the quantity token is not numeric, no unit
\* follows the quantity, or the unit is not in the table
FailsToTokenize(r) ==
    /\ r.k = "phrase"
    /\ \/ r.qty.class = "nonnumeric"
       \/ r.unit = NoUnit
       \/ r.unit \in UnknownUnits

\* the input is empty or blank
IsBlank(r) == r.k = "lit" /\ \A i \in 1..Len(r.text) : IsWhiteSpace(r.text[i])

\* C9: parseAnyDate returns null for an empty or blank input, and for every
\* input that no absolute strategy accepts and that fails to tokenize.
C9_FailureIsAbsent ==
    (called = "parseAnyDate")
        => /\ (IsBlank(req) => out = Null)
           /\ ((FailsToTokenize(req) /\ host = InvalidDate) => out = Null)

\* C9 witness: an unknown unit after a numeric quantity was rejected, and a
\* blank input was.
C9_Witness ==
    /\ called = "parseAnyDate"
    /\ host = InvalidDate
    /\ req.k = "phrase" /\ req.qty.class = "numeral" /\ req.unit \in UnknownUnits
    /\ out = Null

\* C10: whenever the relative parser returns a value, it is an instant <= now.
C10_RelativeNotAfterNow ==
    (called = "parseRelativeLinkedInDate" /\ out # Null)
        => (out.kind = "date" /\ DateLE(out, now))

\* ------------------------------------------------------------------------
\* Claims on the row normalizer, the load, the curated lists and the
\* dropdowns
\* ------------------------------------------------------------------------

\* the header spellings normalizeRow reads for a logical field, in order
ReadKeys(field) ==
    CASE field = "include" -> <<"Include", "include", "INCLUDE">>
      [] field = "date" -> <<"posted_iso", "post_date_iso", "date", "posted">>
      [] field = "author" -> <<"author", "author_name", "Author">>
      [] field = "title" -> <<"headline", "title">>
      [] field = "summary" -> <<"summary", "Summary">>
      [] field = "tags" -> <<"tags", "Tags">>
      [] field = "url" -> <<"post_url", "url", "href">>

\* two Posts agree on a logical field
SameField(a, b, field) ==
    CASE field = "include" -> a.include = b.include
      [] field = "date" -> a.dateRaw = b.dateRaw /\ a.dateObj = b.dateObj
      [] field = "author" -> a.author = b.author
      [] field = "title" -> a.title = b.title
      [] field = "summary" -> a.summary = b.summary
      [] field = "tags" -> a.tags = b.tags
      [] field = "url" -> a.url = b.url

\* the Post has nothing in a logical field
FieldIsEmpty(a, field) ==
    CASE field = "include" -> a.include = <<>>
      [] field = "date" -> a.dateRaw = <<>> /\ a.dateObj = Null
      [] field = "author" -> a.author = <<>>
      [] field = "title" -> a.title = <<>>
      [] field = "summary" -> a.summary = <<>>
      [] field = "tags" -> a.tags = <<>>
      [] field = "url" -> a.url = <<>>

\* C11: a row that carries the value of a logical field under any listed
\* alias in any letter case normalizes to the same Post as the row that
\* carries it under the canonical lower-case header, the first listed alias
\* winning when several are present.
C11_AnyAliasAnyCase ==
    (nrm.pc = "done" /\ nrm.value # <<>>) => nrm.out = nrm.refFirst

\* C11 as the code has it: a value under one of the exact spellings
\* normalizeRow reads normalizes to the same Post as under the canonical
\* header; a header in any other spelling is not read, the field is empty
\* and the other fields are as in the canonical row; of two headers read,
\* the first with a non-empty value wins (for the inclusion flag, the first
\* present).
C11_ExactSpellingsOnly ==
    (nrm.pc = "done") =>
        IF nrm.extra = NoExtra
        THEN IF nrm.key \in Range(ReadKeys(nrm.field))
             THEN nrm.out = nrm.refFirst
             ELSE /\ FieldIsEmpty(nrm.out, nrm.field)
                  /\ \A f \in Fields \ {nrm.field} : SameField(nrm.out, nrm.refFirst, f)
        ELSE IF nrm.field = "include" \/ nrm.value # <<>>
             THEN nrm.out = nrm.refFirst
             ELSE nrm.out = nrm.refExtra

\* C11 witness: a row carrying a value under a later spelling the code
\* reads, next to the first spelling with another value, has been normalized
C11_Witness ==
    /\ nrm.pc = "done"
    /\ nrm.extra # NoExtra
    /\ nrm.value # <<>>
    /\ nrm.field = "title"
    /\ nrm.out.title = nrm.value

\* C12: a failed fetch of the posts CSV, the component still mounted, is
\* delivered once: the step leaves rows empty, a non-empty error notice and
\* loading false; once the load has completed rows, the notice and loading
\* are never assigned again; and in every reachable state a non-empty
\* notice implies rows is empty.
C12_FailureDeliveredOnce ==
    /\ [](error # "" => (rows = <<>> /\ loading = FALSE))
    /\ [][(LoadFails /\ mounted)
            => (rows' = <<>> /\ error' # "" /\ loading' = FALSE /\ loadPc' = "done")]_vars
    /\ [][(loadPc = "done")
            => (loadPc' = "done" /\ rows' = rows /\ error' = error
                /\ loading' = loading)]_vars

\* C12 witness: the fetch has failed, the notice is shown, and the user has
\* used a control since
C12_Witness ==
    /\ loadPc = "done"
    /\ mounted
    /\ error = NotFoundNotice
    /\ rows = <<>>
    /\ events > 0

\* the values a curated file holds: its cells, trimmed, the empty ones left out
FileValues(file) ==
    {trim(file.records[i][1]) : i \in 1..Len(file.records)} \ {<<>>}

\* a list holds exactly the given values, each once, in ascending order
IsSortedListOf(list, values) ==
    /\ Range(list) = values
    /\ \A i, j \in 1..Len(list) : i < j => localeCompare(list[i], list[j]) < 0

\* the options a dropdown offers: those of the file when it exists, those
\* computed from the posts when it does not
OffersCurated(offered, file, computed) ==
    IF file.found THEN IsSortedListOf(offered, FileValues(file))
    ELSE IsSortedListOf(offered, computed)

\* C13: once the posts and the curated fetches have completed, the author
\* dropdown offers exactly the deduplicated, sorted values of
\* linkedin_authors.csv whenever the file exists, also when it yields no
\* value, and the values computed from the posts only when the file does
\* not exist; likewise the tag dropdown and linkedin_tags.csv.
C13_CuratedWhenFileExists ==
    (loadPc = "done" /\ curatedPc = "done" /\ mounted) =>
        /\ OffersCurated(optionsOf(authorOptions, allAuthors), curatedCSV.authors,
                         {rows[i].author : i \in 1..Len(rows)})
        /\ OffersCurated(optionsOf(tagOptions, allTags), curatedCSV.tags,
                         UNION {Range(rows[i].tags) : i \in 1..Len(rows)})

\* C14: for every text of the grammar and every now, the two relative
\* parsers return either both nothing or the same instant.
C14_ParsersAgree ==
    (called = "both") => out.main = out.other

\* C15: in every state reached by any interleaving of the posts load, the
\* arrival of the curated options and the dropdown events, the effects
\* having run, every applied author is one of the authors currently allowed
\* (the curated options if there are any, else the authors computed from
\* the posts), and every applied tag one of the tags currently allowed.
C15_AppliedWithinAllowed ==
    mounted =>
        /\ authors \subseteq optionsFor("authors")
        /\ tags \subseteq optionsFor("tags")

====
